---- MODULE Spec2Model ----
(***************************************************************************)
(* Model of the EMD decoder of src/emd.py: EMD.__init__, EMD.parse_emd,   *)
(* EMD._parse_vertices, EMD._parse_faces and ImportEMDOperator.execute.   *)
(*                                                                         *)
(* Representation.  A Python bytes object is a sequence of bytes (b'' is  *)
(* <<>>).  A Python int produced by int.from_bytes / struct.unpack is a   *)
(* sequence of bits, least significant first, because a 32-bit word and   *)
(* its left shifts do not fit the model checker's integers; the masks     *)
(* (255, 2040, 1016) bring the values back to small naturals.  Offsets    *)
(* and counters are naturals.  A vertex component sample/3276.8 is the    *)
(* fraction <<10*sample, 32768>>.                                          *)
(*                                                                         *)
(* The input file is `file`: its header fields, its physical length, and  *)
(* its content.  Content below file.fillEnd (from file.fillFrom on) is    *)
(* the word file.fill repeated; every other word is chosen when it is     *)
(* first read (from file.words, file.faceWords) and remembered in `cache` *)
(* for the one place the code reads a position twice (the chunk header    *)
(* that is re-read as the next signature).  All header families have      *)
(* halfword_addend >= 16, so the cursor never runs over the header bytes. *)
(*                                                                         *)
(* An exception leaves EMD.__init__, so the half-built object is never    *)
(* bound: a raising step only sets pc, err and the reads it issued.       *)
(***************************************************************************)
EXTENDS Integers, Sequences, FiniteSets, TLC

VARIABLES
    file,               \* the input file (never changes)
    cache,              \* <<offset, bytes>> of the last header/signature word read
    pc,                 \* position of the import
    err,                \* exception raised out of EMD(...), "none" if none
    ret,                \* what execute returned, "none" while running
    reads,              \* the reads issued by the last step: <<kind, offset, size>>
    file_size, offset_A,
    temp_offset, signature, signature_str, signature_int, temp, chunk_id,
    outer_count, inner_count,
    outer_exit, inner_exit,   \* the way the outer / inner loop was last left
    vertices, addr_vertices, faces,
    obj_info, n_vertices_of_mesh, n_mesh,
    triangle, n_left, cur, loop_guard, direct, last_offset,  \* decoder frame
    entry_len,          \* length of the output list when the decoder was called
    recs                \* the face words the running face decoder has read

vars == <<file, cache, pc, err, ret, reads, file_size, offset_A,
          temp_offset, signature, signature_str, signature_int, temp, chunk_id,
          outer_count, inner_count, outer_exit, inner_exit,
          vertices, addr_vertices, faces, obj_info, n_vertices_of_mesh, n_mesh,
          triangle, n_left, cur, loop_guard, direct, last_offset, entry_len, recs>>

hdrv  == <<file_size, offset_A>>
sigv  == <<signature, signature_str, signature_int>>
tmpv  == <<temp, chunk_id>>
cntv  == <<outer_count, inner_count>>
exitv == <<outer_exit, inner_exit>>
objv  == <<vertices, addr_vertices, faces>>
resv  == <<obj_info, n_vertices_of_mesh, n_mesh>>
callv == <<triangle, n_left, cur, loop_guard, direct, last_offset, entry_len, recs>>

-----------------------------------------------------------------------------
(* Bounds of the input families *)

MaxSizeBase == 6        \* small files: size_base in 0..MaxSizeBase
MaxWideCount == 9       \* wide family: element_count in 0..MaxWideCount (plus 255)
FreeTail == 2           \* long files: words before file_size that are not fill

(* Program constants *)

max_outer_loops == 9999
max_inner_loops == 9999
vertex_guard_limit == 9999
face_guard_limit == 9999
count_mask == 255
chunk_id_shift == 24
tri_mask == 2040
quad_mask == 1016
scale_den == 32768      \* 3276.8 = 32768 / 10

-----------------------------------------------------------------------------
(* Python ints as bit sequences *)

RECURSIVE ToNat(_)
ToNat(b) == IF b = <<>> THEN 0 ELSE b[1] + 2 * ToNat(Tail(b))

ByteBits(x) == [i \in 1..8 |-> (x \div (2^(i-1))) % 2]

RECURSIVE from_bytes(_)
from_bytes(data) ==
    IF data = <<>> THEN <<>> ELSE ByteBits(data[1]) \o from_bytes(Tail(data))

unpack_I(data) == from_bytes(data)

unpack_h(data) ==
    LET u == ToNat(from_bytes(data)) IN IF u >= 32768 THEN u - 65536 ELSE u

rshiftl(val, shift) ==
    IF shift >= Len(val) THEN <<>> ELSE SubSeq(val, shift + 1, Len(val))

lshift(val, shift) == [i \in 1..shift |-> 0] \o val

RECURSIVE BitAnd(_, _)
BitAnd(val, mask) ==
    IF val = <<>> \/ mask = 0 THEN 0
    ELSE val[1] * (mask % 2) + 2 * BitAnd(Tail(val), mask \div 2)

Scaled(sample) == <<10 * sample, scale_den>>

-----------------------------------------------------------------------------
(* The file *)

ReadOK(offset, size) == offset + size <= file.physLen

InFill(offset) == file.fillFrom <= offset /\ offset < file.fillEnd

WordChoices(offset) ==
    IF cache[1] = offset THEN {cache[2]}
    ELSE IF InFill(offset) THEN {file.fill}
    ELSE file.words

FaceChoices(offset) ==
    IF InFill(offset) THEN {file.fill} ELSE file.faceWords

SampleAt(offset, k) ==
    IF InFill(offset)
    THEN LET j == (offset - file.fillFrom) % 4
         IN  IF j = 0 THEN SubSeq(file.fill, 1, 2) ELSE SubSeq(file.fill, 3, 4)
    ELSE file.samples[k]

RECURSIVE Issued(_)
Issued(rs) ==
    IF rs = <<>> THEN <<>>
    ELSE IF ReadOK(rs[1][2], rs[1][3]) THEN <<rs[1]>> \o Issued(Tail(rs))
    ELSE <<rs[1]>>

Fails(rs) == \E i \in 1..Len(rs) : ~ReadOK(rs[i][2], rs[i][3])

Raise(e, rs) ==
    /\ pc' = "raised"
    /\ err' = e
    /\ reads' = Issued(rs)

-----------------------------------------------------------------------------
(* Header arithmetic and the bounds checks of parse_emd *)

FileSize(size_base, halfword_addend) ==
    ToNat(lshift(size_base, 2)) + ToNat(halfword_addend)

OffsetA(value1, value2, value3) ==
    ToNat(value1) + ToNat(value2) * 4 + ToNat(value3) * 8

(* Mutation: the start check forgets the four bytes of the signature *)
StartBeyondFile_NoWidth(offset) == offset > file_size

StartBeyondFile(offset) == offset + 4 > file_size

HeaderBeyondFile(offset) == offset + 4 > file_size

CursorPastFile(offset) == offset >= file_size

NextChunkFits(offset) == offset + 4 <= file_size

(* Mutation: the signature check forgets the four bytes of the signature *)
NextSignatureFits_NoWidth(offset) == offset <= file_size

NextSignatureFits(offset) == offset + 4 <= file_size

OuterCeiling(count) == count > max_outer_loops

InnerCeiling(count) == count > max_inner_loops

ChunkId(t) == ToNat(rshiftl(t, chunk_id_shift))

ElementCount(t) == BitAnd(t, count_mask)

(* Mutation: every tag that is not a face tag is taken for a vertex chunk *)
IsVertexChunk_Default(id) == id \notin {52, 60}

IsVertexChunk(id) == id = 0

IsTriangleChunk(id) == id = 52

IsQuadChunk(id) == id = 60

-----------------------------------------------------------------------------
(* The decoders' arithmetic *)

BlockLoopRuns(n_verts) == n_verts > 3

LeftoverLoopRuns(n_verts) == n_verts > 0

FaceLoopRuns(n_face) == n_face > 0

VertexGuardHit(guard) == guard > vertex_guard_limit

FaceGuardHit(guard) == guard > face_guard_limit

BlockAddrs(vert_offset) == <<vert_offset, vert_offset + 12, vert_offset + 24>>

(* Mutation: the block loop advances by one record instead of three *)
BlockAdvance_OneRecord(vert_offset) == vert_offset + 12

BlockAdvance(vert_offset) == vert_offset + 36

(* Mutation: the leftover loop advances by the six bytes it read *)
LeftoverAdvance_Packed(vert_offset) == vert_offset + 6

LeftoverAdvance(vert_offset) == vert_offset + 12

FaceAdvance(face_offset) == face_offset + 12

VertexReads(a) == << <<"vertex", a, 2>>, <<"vertex", a + 2, 2>>, <<"vertex", a + 4, 2>> >>

VertexAt(a) ==
    << Scaled(unpack_h(SampleAt(a, 1))),
       Scaled(unpack_h(SampleAt(a + 2, 2))),
       Scaled(unpack_h(SampleAt(a + 4, 3))) >>

TriFields(r10) ==
    LET r12 == BitAnd(lshift(r10, 3), tri_mask)
        r13 == BitAnd(rshiftl(r10, 5), tri_mask)
        r14 == BitAnd(rshiftl(r10, 13), tri_mask)
    IN  << r12 \div 8, r13 \div 8, r14 \div 8 >>

TriFace(f, d) ==
    IF d > 0 THEN << f[1], f[2], f[3] >> ELSE << f[1], f[3], f[2] >>

(* Mutation: the third quad field is shifted by 12 instead of 11 *)
QuadFields_Shift12(r10) ==
    LET r12 == BitAnd(lshift(r10, 3), quad_mask)
        r13 == BitAnd(rshiftl(r10, 4), quad_mask)
        r14 == BitAnd(rshiftl(r10, 12), quad_mask)
        r15 == BitAnd(rshiftl(r10, 18), quad_mask)
    IN  << r12 \div 8, r13 \div 8, r14 \div 8, r15 \div 8 >>

QuadFields(r10) ==
    LET r12 == BitAnd(lshift(r10, 3), quad_mask)
        r13 == BitAnd(rshiftl(r10, 4), quad_mask)
        r14 == BitAnd(rshiftl(r10, 11), quad_mask)
        r15 == BitAnd(rshiftl(r10, 18), quad_mask)
    IN  << r12 \div 8, r13 \div 8, r14 \div 8, r15 \div 8 >>

(* Mutation: a quad is split into two triangles along a diagonal *)
QuadFaces_TwoTriangles(f) ==
    << <<f[1], f[2], f[3]>>, <<f[1], f[3], f[4]>> >>

QuadFaces(f) ==
    << <<f[1], f[2], f[3]>>, <<f[1], f[2], f[4]>>,
       <<f[1], f[3], f[4]>>, <<f[2], f[3], f[4]>> >>

(* Mutation: the winding toggle is never flipped *)
Flip_Never(d) == d

Flip(d) == d * (-1)

MeshObject(v, a, f) == [vertex |-> v, vertex_addr |-> a, face |-> f]

-----------------------------------------------------------------------------
(* EMD.__init__, lines 39-67: the header reads and the derived sizes *)

HeaderReads ==
    << <<"header", 8, 2>>, <<"header", 10, 2>>, <<"header", 8, 2>>,
       <<"header", 12, 2>>, <<"header", 14, 2>> >>

EMD_init ==
    /\ pc = "init"
    /\ IF Fails(HeaderReads)
       THEN /\ Raise("ValueError", HeaderReads)
            /\ UNCHANGED <<hdrv, temp_offset>>
       ELSE LET halfword_addend == from_bytes(file.hdr[1])
                size_base == from_bytes(file.hdr[2])
                value1 == from_bytes(file.hdr[1])
                value2 == from_bytes(file.hdr[3])
                value3 == from_bytes(file.hdr[4])
            IN  /\ file_size' = FileSize(size_base, halfword_addend)
                /\ offset_A' = OffsetA(value1, value2, value3)
                /\ reads' = HeaderReads
                /\ pc' = "parse"
                /\ UNCHANGED <<err, temp_offset>>
    /\ UNCHANGED <<file, cache, ret, sigv, tmpv, cntv, exitv, objv, resv, callv>>

(* parse_emd, lines 70-87: the early return or the first signature *)
ParseEntry ==
    /\ pc = "parse"
    /\ IF StartBeyondFile(offset_A)
       THEN /\ pc' = "constructed"
            /\ reads' = <<>>
            /\ temp_offset' = offset_A
            /\ UNCHANGED <<err, sigv, cache>>
       ELSE IF ~ReadOK(offset_A, 4)
       THEN /\ Raise("ValueError", << <<"signature", offset_A, 4>> >>)
            /\ UNCHANGED <<temp_offset, sigv, cache>>
       ELSE \E w \in WordChoices(offset_A) :
            /\ signature_str' = w
            /\ signature_int' = unpack_I(w)
            /\ signature' = w
            /\ cache' = <<offset_A, w>>
            /\ temp_offset' = offset_A
            /\ reads' = << <<"signature", offset_A, 4>> >>
            /\ pc' = "outer"
            /\ UNCHANGED err
    /\ UNCHANGED <<file, ret, hdrv, tmpv, cntv, exitv, objv, resv, callv>>

(* parse_emd, lines 90-117: one test of the outer loop up to the first
   chunk header of the object *)
OuterStep ==
    /\ pc = "outer"
    /\ IF signature # signature_str
       THEN /\ pc' = "finish"
            /\ outer_exit' = "mismatch"
            /\ reads' = <<>>
            /\ UNCHANGED <<err, cache, temp_offset, tmpv, cntv, objv>>
       ELSE IF OuterCeiling(outer_count + 1)
       THEN /\ outer_count' = outer_count + 1
            /\ pc' = "finish"
            /\ outer_exit' = "ceiling"
            /\ reads' = <<>>
            /\ UNCHANGED <<err, cache, temp_offset, tmpv, inner_count, objv>>
       ELSE IF HeaderBeyondFile(temp_offset + 4)
       THEN /\ outer_count' = outer_count + 1
            /\ vertices' = <<>> /\ addr_vertices' = <<>> /\ faces' = <<>>
            /\ temp_offset' = temp_offset + 4
            /\ pc' = "finish"
            /\ outer_exit' = "bound"
            /\ reads' = <<>>
            /\ UNCHANGED <<err, cache, tmpv, inner_count>>
       ELSE IF ~ReadOK(temp_offset + 4, 4)
       THEN /\ Raise("ValueError", << <<"chunk", temp_offset + 4, 4>> >>)
            /\ UNCHANGED <<cache, temp_offset, tmpv, cntv, objv, outer_exit>>
       ELSE \E w \in WordChoices(temp_offset + 4) :
            /\ outer_count' = outer_count + 1
            /\ vertices' = <<>> /\ addr_vertices' = <<>> /\ faces' = <<>>
            /\ temp_offset' = temp_offset + 4
            /\ temp' = from_bytes(w)
            /\ chunk_id' = ChunkId(from_bytes(w))
            /\ cache' = <<temp_offset + 4, w>>
            /\ inner_count' = 0
            /\ reads' = << <<"chunk", temp_offset + 4, 4>> >>
            /\ pc' = "inner"
            /\ UNCHANGED <<err, outer_exit>>
    /\ UNCHANGED <<file, ret, hdrv, sigv, inner_exit, resv, callv>>

(* parse_emd, lines 120-154: one test of the inner loop and the dispatch *)
InnerStep ==
    /\ pc = "inner"
    /\ reads' = <<>>
    /\ IF temp = signature_int
       THEN /\ pc' = "store"
            /\ inner_exit' = "match"
            /\ UNCHANGED <<err, signature, inner_count, callv>>
       ELSE IF InnerCeiling(inner_count + 1)
       THEN /\ inner_count' = inner_count + 1
            /\ pc' = "store"
            /\ inner_exit' = "ceiling"
            /\ UNCHANGED <<err, signature, callv>>
       ELSE IF CursorPastFile(temp_offset)
       THEN /\ inner_count' = inner_count + 1
            /\ signature' = <<>>
            /\ pc' = "store"
            /\ inner_exit' = "past"
            /\ UNCHANGED <<err, callv>>
       ELSE IF IsVertexChunk(chunk_id)
       THEN /\ inner_count' = inner_count + 1
            /\ n_left' = ElementCount(temp)
            /\ cur' = temp_offset + 4
            /\ loop_guard' = 0
            /\ entry_len' = Len(vertices)
            /\ pc' = "vblock"
            /\ UNCHANGED <<err, signature, inner_exit, triangle, direct,
                           last_offset, recs>>
       ELSE IF IsTriangleChunk(chunk_id) \/ IsQuadChunk(chunk_id)
       THEN /\ inner_count' = inner_count + 1
            /\ triangle' = IsTriangleChunk(chunk_id)
            /\ n_left' = ElementCount(temp)
            /\ cur' = temp_offset + 4
            /\ direct' = -1
            /\ loop_guard' = 0
            /\ entry_len' = Len(faces)
            /\ recs' = <<>>
            /\ pc' = "face"
            /\ UNCHANGED <<err, signature, inner_exit, last_offset>>
       ELSE /\ pc' = "raised"
            /\ err' = "NotImplementedError"
            /\ UNCHANGED <<signature, inner_count, inner_exit, callv>>
    /\ UNCHANGED <<file, cache, ret, hdrv, temp_offset, signature_str,
                   signature_int, tmpv, outer_count, outer_exit, objv, resv>>

-----------------------------------------------------------------------------
(* _parse_vertices, lines 192-217: one test of the three-vertex loop *)
VertexBlockStep ==
    /\ pc = "vblock"
    /\ IF ~BlockLoopRuns(n_left)
       THEN /\ pc' = "vleft"
            /\ reads' = <<>>
            /\ UNCHANGED <<err, vertices, addr_vertices, n_left, cur, loop_guard>>
       ELSE IF VertexGuardHit(loop_guard + 1)
       THEN /\ loop_guard' = loop_guard + 1
            /\ pc' = "vleft"
            /\ reads' = <<>>
            /\ UNCHANGED <<err, vertices, addr_vertices, n_left, cur>>
       ELSE LET a == BlockAddrs(cur)
                rs == VertexReads(a[1]) \o VertexReads(a[2]) \o VertexReads(a[3])
            IN  IF Fails(rs)
                THEN /\ Raise("ValueError", rs)
                     /\ UNCHANGED <<vertices, addr_vertices, n_left, cur, loop_guard>>
                ELSE /\ loop_guard' = loop_guard + 1
                     /\ addr_vertices' = addr_vertices \o a
                     /\ vertices' = vertices \o
                            <<VertexAt(a[1]), VertexAt(a[2]), VertexAt(a[3])>>
                     /\ cur' = BlockAdvance(cur)
                     /\ n_left' = n_left - 3
                     /\ reads' = rs
                     /\ UNCHANGED <<pc, err>>
    /\ UNCHANGED <<file, cache, ret, hdrv, temp_offset, sigv, tmpv, cntv, exitv,
                   faces, resv, triangle, direct, last_offset, entry_len, recs>>

(* _parse_vertices, lines 220-235: one test of the leftover loop, or the
   return *)
VertexLeftoverStep ==
    /\ pc = "vleft"
    /\ IF ~LeftoverLoopRuns(n_left)
       THEN /\ last_offset' = cur
            /\ pc' = "next"
            /\ reads' = <<>>
            /\ UNCHANGED <<err, vertices, addr_vertices, n_left, cur, loop_guard>>
       ELSE IF VertexGuardHit(loop_guard + 1)
       THEN /\ loop_guard' = loop_guard + 1
            /\ last_offset' = cur
            /\ pc' = "next"
            /\ reads' = <<>>
            /\ UNCHANGED <<err, vertices, addr_vertices, n_left, cur>>
       ELSE IF Fails(VertexReads(cur))
       THEN /\ Raise("ValueError", VertexReads(cur))
            /\ UNCHANGED <<vertices, addr_vertices, n_left, cur, loop_guard,
                           last_offset>>
       ELSE /\ loop_guard' = loop_guard + 1
            /\ addr_vertices' = Append(addr_vertices, cur)
            /\ vertices' = Append(vertices, VertexAt(cur))
            /\ cur' = LeftoverAdvance(cur)
            /\ n_left' = n_left - 1
            /\ reads' = VertexReads(cur)
            /\ UNCHANGED <<pc, err, last_offset>>
    /\ UNCHANGED <<file, cache, ret, hdrv, temp_offset, sigv, tmpv, cntv, exitv,
                   faces, resv, triangle, direct, entry_len, recs>>

(* _parse_faces, lines 243-284: one test of the face loop, or the return *)
FaceStep ==
    /\ pc = "face"
    /\ IF ~FaceLoopRuns(n_left)
       THEN /\ last_offset' = cur
            /\ pc' = "next"
            /\ reads' = <<>>
            /\ UNCHANGED <<err, faces, n_left, cur, loop_guard, direct, recs>>
       ELSE IF FaceGuardHit(loop_guard + 1)
       THEN /\ loop_guard' = loop_guard + 1
            /\ last_offset' = cur
            /\ pc' = "next"
            /\ reads' = <<>>
            /\ UNCHANGED <<err, faces, n_left, cur, direct, recs>>
       ELSE IF ~ReadOK(cur, 4)
       THEN /\ Raise("ValueError", << <<"face", cur, 4>> >>)
            /\ UNCHANGED <<faces, n_left, cur, loop_guard, direct, recs,
                           last_offset>>
       ELSE \E w \in FaceChoices(cur) :
            LET r10 == from_bytes(w)
            IN  /\ loop_guard' = loop_guard + 1
                /\ faces' = IF triangle
                            THEN Append(faces, TriFace(TriFields(r10), direct))
                            ELSE faces \o QuadFaces(QuadFields(r10))
                /\ direct' = Flip(direct)
                /\ cur' = FaceAdvance(cur)
                /\ n_left' = n_left - 1
                /\ recs' = Append(recs, w)
                /\ reads' = << <<"face", cur, 4>> >>
                /\ UNCHANGED <<pc, err, last_offset>>
    /\ UNCHANGED <<file, cache, ret, hdrv, temp_offset, sigv, tmpv, cntv, exitv,
                   vertices, addr_vertices, resv, triangle, entry_len>>

(* parse_emd, lines 138/143/148 and 156-164: take the decoder's cursor and
   read the next chunk header *)
InnerNext ==
    /\ pc = "next"
    /\ IF NextChunkFits(last_offset)
       THEN IF ~ReadOK(last_offset, 4)
            THEN /\ Raise("ValueError", << <<"chunk", last_offset, 4>> >>)
                 /\ UNCHANGED <<cache, temp_offset, tmpv, signature, inner_exit>>
            ELSE \E w \in WordChoices(last_offset) :
                 /\ temp_offset' = last_offset
                 /\ temp' = from_bytes(w)
                 /\ chunk_id' = ChunkId(from_bytes(w))
                 /\ cache' = <<last_offset, w>>
                 /\ reads' = << <<"chunk", last_offset, 4>> >>
                 /\ pc' = "inner"
                 /\ UNCHANGED <<err, signature, inner_exit>>
       ELSE /\ temp_offset' = last_offset
            /\ signature' = <<>>
            /\ inner_exit' = "nofit"
            /\ reads' = <<>>
            /\ pc' = "store"
            /\ UNCHANGED <<err, cache, tmpv>>
    /\ UNCHANGED <<file, ret, hdrv, signature_str, signature_int, cntv,
                   outer_exit, objv, resv, callv>>

(* parse_emd, lines 166-180: store the object and read the next signature *)
StoreObject ==
    /\ pc = "store"
    /\ IF NextSignatureFits(temp_offset) /\ ~ReadOK(temp_offset, 4)
       THEN /\ Raise("ValueError", << <<"signature", temp_offset, 4>> >>)
            /\ UNCHANGED <<cache, signature_str, signature_int, obj_info,
                           n_vertices_of_mesh>>
       ELSE /\ obj_info' = Append(obj_info,
                                  MeshObject(vertices, addr_vertices, faces))
            /\ n_vertices_of_mesh' = Append(n_vertices_of_mesh, Len(vertices))
            /\ pc' = "outer"
            /\ UNCHANGED err
            /\ IF NextSignatureFits(temp_offset)
               THEN \E w \in WordChoices(temp_offset) :
                    /\ signature_str' = w
                    /\ signature_int' = unpack_I(w)
                    /\ cache' = <<temp_offset, w>>
                    /\ reads' = << <<"signature", temp_offset, 4>> >>
               ELSE /\ signature_str' = <<>>
                    /\ reads' = <<>>
                    /\ UNCHANGED <<cache, signature_int>>
    /\ UNCHANGED <<file, ret, hdrv, temp_offset, signature, tmpv, cntv, exitv,
                   objv, n_mesh, callv>>

(* parse_emd, lines 182-184 *)
ParseFinish ==
    /\ pc = "finish"
    /\ n_mesh' = Len(obj_info)
    /\ pc' = "constructed"
    /\ reads' = <<>>
    /\ UNCHANGED <<file, cache, err, ret, hdrv, temp_offset, sigv, tmpv, cntv,
                   exitv, objv, obj_info, n_vertices_of_mesh, callv>>

(* ImportEMDOperator.execute, lines 303-319: EMD(...) returned; the meshes
   built from obj_info belong to the host and are not part of the state *)
ExecuteImport ==
    /\ pc = "constructed"
    /\ ret' = "FINISHED"
    /\ pc' = "done"
    /\ reads' = <<>>
    /\ UNCHANGED <<file, cache, err, hdrv, temp_offset, sigv, tmpv, cntv, exitv,
                   objv, resv, callv>>

(* ImportEMDOperator.execute, lines 315-317: EMD(...) raised *)
ExecuteExcept ==
    /\ pc = "raised"
    /\ ret' = "CANCELLED"
    /\ pc' = "done"
    /\ UNCHANGED <<file, cache, err, reads, hdrv, temp_offset, sigv, tmpv, cntv,
                   exitv, objv, resv, callv>>

Next ==
    \/ EMD_init
    \/ ParseEntry
    \/ OuterStep
    \/ InnerStep
    \/ VertexBlockStep
    \/ VertexLeftoverStep
    \/ FaceStep
    \/ InnerNext
    \/ StoreObject
    \/ ParseFinish
    \/ ExecuteImport
    \/ ExecuteExcept

-----------------------------------------------------------------------------
(* Input files *)

Le16(n) == <<n % 256, n \div 256>>

Header(hw, sb, c, e) == <<Le16(hw), Le16(sb), Le16(c), Le16(e)>>

VertexChunk(n) == <<n, 0, 0, 0>>
TriangleChunk(n) == <<n, 0, 0, 52>>
QuadChunk(n) == <<n, 0, 0, 60>>
OtherChunk == <<1, 0, 0, 1>>
Magic == <<69, 77, 68, 128>>

Samples == { <<Le16(3277), Le16(0), Le16(65536 - 3277)>> }

SmallWords ==
    { Magic, VertexChunk(0), VertexChunk(1), VertexChunk(4),
      TriangleChunk(2), QuadChunk(1), OtherChunk }

SmallFaceWords == { <<1, 2, 3, 4>>, <<255, 129, 64, 240>> }

SmallFiles ==
    { [hdr |-> Header(hw, sb, c, 0), physLen |-> p,
       fill |-> <<>>, fillFrom |-> 0, fillEnd |-> 0,
       words |-> SmallWords, faceWords |-> SmallFaceWords, samples |-> s] :
      hw \in {16}, sb \in 0..MaxSizeBase, c \in {0, 1},
      p \in {12, 28, 200}, s \in Samples }

InitFrom(files) ==
    /\ file \in files
    /\ cache = <<-1, <<>>>>
    /\ pc = "init"
    /\ err = "none"
    /\ ret = "none"
    /\ reads = <<>>
    /\ file_size = 0 /\ offset_A = 0
    /\ temp_offset = 0
    /\ signature = <<>> /\ signature_str = <<>> /\ signature_int = <<>>
    /\ temp = <<>> /\ chunk_id = 0
    /\ outer_count = 0 /\ inner_count = 0
    /\ outer_exit = "none" /\ inner_exit = "none"
    /\ vertices = <<>> /\ addr_vertices = <<>> /\ faces = <<>>
    /\ obj_info = <<>> /\ n_vertices_of_mesh = <<>> /\ n_mesh = 0
    /\ triangle = FALSE /\ n_left = 0 /\ cur = 0 /\ loop_guard = 0
    /\ direct = 0 /\ last_offset = 0
    /\ entry_len = 0 /\ recs = <<>>

LongWords == { Magic, VertexChunk(0), VertexChunk(1), OtherChunk }

LongSizeBase == max_inner_loops + FreeTail

LongFiles ==
    { [hdr |-> Header(16, LongSizeBase, 0, 0),
       physLen |-> 16 + 4 * LongSizeBase + 64,
       fill |-> f, fillFrom |-> 20,
       fillEnd |-> 16 + 4 * LongSizeBase - 4 * FreeTail,
       words |-> LongWords, faceWords |-> SmallFaceWords, samples |-> s] :
      f \in {VertexChunk(0), Magic}, s \in Samples }

OneBit(i) == [j \in 1..4 |-> IF j = (i \div 8) + 1 THEN 2^(i % 8) ELSE 0]

BitWords ==
    { OneBit(i) : i \in 0..31 } \cup
    { <<255, 255, 255, 255>>, <<0, 0, 0, 0>>, <<1, 130, 195, 164>> }

WideWords ==
    { Magic, TriangleChunk(1), QuadChunk(1), TriangleChunk(2), QuadChunk(2),
      VertexChunk(count_mask) } \cup
    { VertexChunk(n) : n \in 0..MaxWideCount }

WideFiles ==
    { [hdr |-> Header(16, 2, 0, 0), physLen |-> 4096,
       fill |-> <<>>, fillFrom |-> 0, fillEnd |-> 0,
       words |-> WideWords, faceWords |-> BitWords, samples |-> s] :
      s \in Samples }

Init == InitFrom(SmallFiles \cup WideFiles)

Spec == Init /\ [][Next]_vars

InitLong == InitFrom(LongFiles \cup SmallFiles)

SpecLong == InitLong /\ [][Next]_vars

-----------------------------------------------------------------------------
(* Properties.  The values they compare against are computed from the
   file's bytes by plain arithmetic, not by the decoder's operators. *)

U16(bs) == bs[1] + 256 * bs[2]

HdrFileSize == 4 * U16(file.hdr[2]) + U16(file.hdr[1])

HdrChunkTable == U16(file.hdr[1]) + U16(file.hdr[3]) * 4 + U16(file.hdr[4]) * 8

HeaderReadable == file.physLen >= 16

HeldWord == cache[2]

HeldTag == HeldWord[4]

HeldCount == HeldWord[1]

HoldsChunk == pc \in {"inner", "vblock", "vleft", "face", "next"}

BodyReads == { i \in 1..Len(reads) : reads[i][1] # "header" }

(* C1: when the header is readable and chunk_table_offset + 4 > file_size,
   the parse reads no signature, decodes no chunk, raises nothing and ends
   with zero objects. *)
C1_EmptyOnInvalidHeader ==
    (pc # "init" /\ HeaderReadable /\ HdrChunkTable + 4 > HdrFileSize) =>
        /\ file_size = HdrFileSize /\ offset_A = HdrChunkTable
        /\ pc \in {"parse", "constructed", "done"}
        /\ err = "none"
        /\ BodyReads = {}
        /\ signature_str = <<>> /\ temp = <<>>
        /\ obj_info = <<>> /\ vertices = <<>> /\ faces = <<>>
        /\ (pc = "done" => ret = "FINISHED")

C1_Witness ==
    /\ pc = "done" /\ ret = "FINISHED"
    /\ HeaderReadable /\ HdrChunkTable + 4 > HdrFileSize
    /\ obj_info = <<>>

(* C2 as stated: whenever the inner loop holds a chunk header that differs
   from the signature and whose top byte is not 0, 52 or 60, the next step
   raises the unsupported-chunk failure. *)
UnsupportedHeld ==
    /\ pc = "inner"
    /\ temp # signature_int
    /\ HeldTag \notin {0, 52, 60}

C2_AlwaysFatal ==
    [][UnsupportedHeld => (pc' = "raised" /\ err' = "NotImplementedError")]_vars

(* C2 amended: an unsupported chunk header held by the inner loop is fatal
   unless 9999 chunks of the object were already dispatched; the failure
   reaches execute, which cancels, and nothing is read or stored after it. *)
C2_FatalBelowCeiling ==
    [][ /\ (UnsupportedHeld /\ inner_count < 9999) =>
              (pc' = "raised" /\ err' = "NotImplementedError" /\ reads' = <<>>)
        /\ (UnsupportedHeld /\ inner_count >= 9999) =>
              (pc' = "store" /\ err' = "none")
        /\ (pc = "raised" /\ err = "NotImplementedError") =>
              (pc' = "done" /\ ret' = "CANCELLED" /\ reads' = reads
               /\ obj_info' = obj_info) ]_vars

C2_Witness ==
    /\ pc = "done" /\ err = "NotImplementedError" /\ ret = "CANCELLED"
    /\ HeldTag = 1

(* C3: no signature, chunk-header or chunk-body read ends beyond
   file_size. *)
C3_ReadsWithinFileSize ==
    \A i \in BodyReads : reads[i][2] + reads[i][3] <= file_size

(* C4: a readable vertex chunk at header offset o with element_count n
   appends exactly n records, the i-th with address o + 4 + 12*i, leaves
   the cursor at o + 4 + 12*n, and agrees with the specified procedure. *)
RECURSIVE ProcedureAddrs(_, _)
ProcedureAddrs(a, n) ==
    IF n >= 3 THEN <<a, a + 12, a + 24>> \o ProcedureAddrs(a + 36, n - 3)
    ELSE IF n > 0 THEN <<a>> \o ProcedureAddrs(a + 12, n - 1)
    ELSE <<>>

RECURSIVE ProcedureEnd(_, _)
ProcedureEnd(a, n) ==
    IF n >= 3 THEN ProcedureEnd(a + 36, n - 3)
    ELSE IF n > 0 THEN ProcedureEnd(a + 12, n - 1)
    ELSE a

VertexChunkDone == pc = "next" /\ HeldTag = 0

C4_VertexChunk ==
    VertexChunkDone =>
        LET o == temp_offset
            n == HeldCount
        IN  /\ Len(addr_vertices) = entry_len + n
            /\ Len(vertices) = entry_len + n
            /\ \A i \in 0..(n - 1) : addr_vertices[entry_len + 1 + i] = o + 4 + 12 * i
            /\ last_offset = o + 4 + 12 * n
            /\ SubSeq(addr_vertices, entry_len + 1, entry_len + n)
                   = ProcedureAddrs(o + 4, n)
            /\ last_offset = ProcedureEnd(o + 4, n)

C4_Witness ==
    /\ VertexChunkDone
    /\ HeldCount = 6
    /\ Len(addr_vertices) = entry_len + 6

(* C5: in a triangle chunk the k-th face record (from 0) is emitted as
   (f1,f3,f2) for even k and (f1,f2,f3) for odd k; the toggle starts
   negative and flips after every record. *)
InTriangleChunk == pc \in {"face", "next"} /\ HeldTag = 52

C5_WindingAlternates ==
    InTriangleChunk =>
        /\ Len(faces) = entry_len + Len(recs)
        /\ direct = (IF Len(recs) % 2 = 0 THEN -1 ELSE 1)
        /\ \A k \in 0..(Len(recs) - 1) :
             LET f == TriFields(from_bytes(recs[k + 1]))
             IN  faces[entry_len + k + 1] =
                     IF k % 2 = 0 THEN <<f[1], f[3], f[2]>>
                                  ELSE <<f[1], f[2], f[3]>>

C5_Witness ==
    /\ InTriangleChunk
    /\ Len(recs) = 2 /\ recs[1] = recs[2]
    /\ faces[entry_len + 1] # faces[entry_len + 2]
    /\ faces[entry_len + 2] = TriFields(from_bytes(recs[2]))

(* C6: a readable quad chunk with element_count n appends exactly 4*n
   three-index faces, (f1,f2,f3), (f1,f2,f4), (f1,f3,f4), (f2,f3,f4) per
   record whatever the toggle, and leaves the cursor at o + 4 + 12*n. *)
QuadChunkDone == pc = "next" /\ HeldTag = 60

C6_QuadExpansion ==
    QuadChunkDone =>
        LET n == HeldCount
        IN  /\ Len(recs) = n
            /\ Len(faces) = entry_len + 4 * n
            /\ last_offset = temp_offset + 4 + 12 * n
            /\ \A i \in (entry_len + 1)..Len(faces) : Len(faces[i]) = 3
            /\ \A k \in 0..(n - 1) :
                 LET f == QuadFields(from_bytes(recs[k + 1]))
                     b == entry_len + 4 * k
                 IN  /\ faces[b + 1] = <<f[1], f[2], f[3]>>
                     /\ faces[b + 2] = <<f[1], f[2], f[4]>>
                     /\ faces[b + 3] = <<f[1], f[3], f[4]>>
                     /\ faces[b + 4] = <<f[2], f[3], f[4]>>

C6_Witness ==
    /\ QuadChunkDone
    /\ HeldCount = 2
    /\ Len(faces) = entry_len + 8
    /\ faces[entry_len + 1] # faces[entry_len + 2]

(* C8: when the next chunk header does not fit after a decoded chunk, the
   object in progress is stored once with everything decoded so far, the
   earlier objects stay, both signatures become empty, nothing more is
   read or stored, and the parse ends without a failure. *)
C8_TruncatedObjectStoredOnce ==
    [][ /\ (pc = "next" /\ last_offset + 4 > file_size) =>
              /\ pc' = "store" /\ inner_exit' = "nofit" /\ err' = "none"
              /\ signature' = <<>>
              /\ UNCHANGED <<obj_info, vertices, addr_vertices, faces>>
        /\ (pc = "store" /\ inner_exit = "nofit") =>
              /\ obj_info' = Append(obj_info,
                     [vertex |-> vertices, vertex_addr |-> addr_vertices,
                      face |-> faces])
              /\ signature_str' = <<>> /\ signature' = <<>>
              /\ reads' = <<>> /\ err' = "none"
        /\ (inner_exit = "nofit" /\ pc \notin {"next", "store"}) =>
              /\ obj_info' = obj_info
              /\ reads' = <<>> /\ err' = "none"
              /\ pc' \in {"finish", "constructed", "done"}
              /\ (pc' = "done" => ret' = "FINISHED") ]_vars

C8_Witness ==
    /\ pc = "done" /\ inner_exit = "nofit" /\ ret = "FINISHED"
    /\ Len(obj_info) = 2
    /\ obj_info[2].vertex # <<>>
    /\ n_mesh = 2

(* C9: the triangle fields are w & 255, (w >> 8) & 255, (w >> 16) & 255 and
   the quad fields w & 127, (w >> 7) & 127, (w >> 14) & 127,
   (w >> 21) & 127. *)
Low24(w) == w[1] + 256 * w[2] + 65536 * w[3]

Low28(w) == Low24(w) + 16777216 * (w[4] % 16)

TriIdx(w) ==
    << Low24(w) % 256, (Low24(w) \div 256) % 256, (Low24(w) \div 65536) % 256 >>

QuadIdx(w) ==
    << Low28(w) % 128, (Low28(w) \div 128) % 128,
       (Low28(w) \div 16384) % 128, (Low28(w) \div 2097152) % 128 >>

FaceRecordDecoded ==
    pc \in {"face", "next"} /\ HeldTag \in {52, 60} /\ recs # <<>>

C9_FieldExtraction ==
    FaceRecordDecoded =>
        LET w == recs[Len(recs)]
            t == TriIdx(w)
            q == QuadIdx(w)
            m == Len(faces)
        IN  IF HeldTag = 52
            THEN /\ faces[m] \in {<<t[1], t[2], t[3]>>, <<t[1], t[3], t[2]>>}
                 /\ \A i \in 1..3 : faces[m][i] \in 0..255
            ELSE /\ faces[m - 3] = <<q[1], q[2], q[3]>>
                 /\ faces[m - 2] = <<q[1], q[2], q[4]>>
                 /\ faces[m - 1] = <<q[1], q[3], q[4]>>
                 /\ faces[m] = <<q[2], q[3], q[4]>>
                 /\ \A j \in 0..3 : \A i \in 1..3 : faces[m - j][i] \in 0..127

C9_Witness ==
    /\ FaceRecordDecoded
    /\ HeldTag = 60
    /\ recs[Len(recs)] = <<1, 130, 195, 164>>
    /\ faces[Len(faces)] = <<4, 14, 38>>

(* The vertex decoder's guard counts at most element_count iterations, so
   it stays below the 9999 limit: the limit is never what stops it. *)
VertexGuardBelowLimit ==
    pc \in {"vblock", "vleft"} => (loop_guard <= 255 /\ loop_guard <= HeldCount)

(* C3 as stated is C3_ReadsWithinFileSize above; what the code does check
   is every signature and chunk-header read. *)
HeaderReadsWithinFileSize ==
    \A i \in BodyReads :
        reads[i][1] \in {"signature", "chunk"} =>
            reads[i][2] + reads[i][3] <= file_size

(* C10 as stated: the loops are only ever left through a bounds stop, a
   signature match or a failure, never through an iteration ceiling. *)
C10_NoCeilingExit ==
    /\ (pc = "store" => inner_exit \in {"match", "nofit", "past"})
    /\ (pc = "finish" => outer_exit \in {"mismatch", "bound"})

(* C10 amended: every parse terminates because the cursor grows (by 4 at
   every consumed signature, by 4 + 12*element_count at every dispatched
   chunk) and is checked against file_size <= 327675 before every header
   read; the measure Rank, which ignores the iteration counters, falls at
   every step.  The loops end through a bounds stop, a signature match, a
   failure or one of the 9999 ceilings. *)
CursorLimit == 327675 + 3072

Phase ==
    CASE pc = "init" -> 1900
      [] pc = "parse" -> 1800
      [] pc = "inner" -> 1500
      [] pc = "vblock" -> 600 + n_left
      [] pc = "vleft" -> 300 + n_left
      [] pc = "face" -> 300 + n_left
      [] pc = "next" -> 200
      [] pc = "store" -> 100
      [] pc = "outer" -> 50
      [] pc = "finish" -> 40
      [] pc = "constructed" -> 30
      [] pc = "raised" -> 10
      [] pc = "done" -> 0

Rank == (CursorLimit - temp_offset) * 2000 + Phase

C10_TerminatesByCursor ==
    [][ /\ Rank' < Rank
        /\ Rank' >= 0
        /\ file_size' <= 327675
        /\ (pc = "outer" /\ pc' = "inner") => temp_offset' = temp_offset + 4
        /\ (pc = "next" /\ pc' # "raised") =>
               temp_offset' = temp_offset + 4 + 12 * HeldCount
        /\ pc' = "inner" => temp_offset' + 4 <= file_size'
        /\ pc' = "store" => inner_exit' \in {"match", "nofit", "ceiling"}
        /\ pc' = "finish" => outer_exit' \in {"mismatch", "bound", "ceiling"}
      ]_vars

C10_Witness ==
    /\ pc = "done" /\ ret = "FINISHED"
    /\ inner_exit = "ceiling"
    /\ inner_count = 10000

====
